---- MODULE Spec2Model ----
(***************************************************************************)
(* A model of the folder analysis tool: the filter policy of               *)
(* ConfigManager (should_include_file, should_include_file_contents), the  *)
(* tree renderer (print_tree_structure, get_folder_structure_as_string),   *)
(* the content pass (collect_file_contents), the run of analyze_folder and *)
(* the wizard (FolderAnalysisGUI), which stages a selection and runs it.   *)
(*                                                                         *)
(* Strings are sequences of one-character strings, so that startswith,     *)
(* endswith, "in", lower() and Path.suffix are computed character by       *)
(* character as Python computes them.                                      *)
(***************************************************************************)
EXTENDS Integers, Sequences, FiniteSets, TLC

VARIABLES
    cfg,        \* ConfigManager.config: the options of the run
    fpath,      \* the Path handed to the filter policy (filter specification)
    fres,       \* the filter policy's answer for fpath
    root,       \* the target path handed to the renderer
    rootKind,   \* what the target path names: "dir", "file" or "missing"
    fs,         \* the directory tree below the root
    outArg,     \* analyze_folder's output_folder argument given by the caller
    pc,         \* position of the run of analyze_folder
    console,    \* lines printed to the console (print)
    file,       \* the output file: its state and the chunks written to it
    exc,        \* the exception in flight in analyze_folder, or "none"
    strOut,     \* the lines of the string get_folder_structure_as_string returns
    recs,       \* file_contents: the records collect_file_contents returns
    current_step,       \* the wizard's step: 0, 1 or 2
    output_folder,      \* the wizard's output folder, "" while None
    target_folder,      \* the wizard's target folder, "" while None
    selected_items,     \* the wizard's selection: entries of the target folder
    content_extensions, \* the extensions ticked in the wizard's last step
    disk,               \* the tree of the folder the wizard browses
    staged              \* the entries finish_analysis put in the scratch directory

\* The state of the wizard.
wizard == <<current_step, output_folder, target_folder, selected_items,
            content_extensions, disk, staged>>

vars == <<cfg, fpath, fres, root, rootKind, fs, outArg, pc, console,
          file, exc, strOut, recs, wizard>>

(***************************************************************************)
(* Bounds of the model.                                                    *)
(***************************************************************************)
\* Longest path (in components) handed to the filter policy.
MaxPathLen == 2
\* Most entries below the root of a tree handed to the renderer on its own.
MaxEntries == 3
\* Most entries below the root of a tree handed to a run of analyze_folder.
MaxRunEntries == 2
\* Most entries below the folder the wizard browses.
MaxGuiEntries == 2

(***************************************************************************)
(* Characters and strings.                                                 *)
(***************************************************************************)
\* The code point of a character (Python compares strings by code point).
Ord(c) ==
    CASE c = "\n" -> 10
      [] c = " " -> 32
      [] c = "." -> 46
      [] c = "/" -> 47
      [] c = "A" -> 65
      [] c = "B" -> 66
      [] c = "N" -> 78
      [] c = "T" -> 84
      [] c = "X" -> 88
      [] c = "_" -> 95
      [] c = "a" -> 97
      [] c = "b" -> 98
      [] c = "c" -> 99
      [] c = "e" -> 101
      [] c = "h" -> 104
      [] c = "n" -> 110
      [] c = "o" -> 111
      [] c = "p" -> 112
      [] c = "t" -> 116
      [] c = "w" -> 119
      [] c = "x" -> 120
      [] c = "y" -> 121
      [] OTHER -> 9000

\* str.lower() on one character.
LowerChar(c) ==
    CASE c = "A" -> "a"
      [] c = "B" -> "b"
      [] c = "N" -> "n"
      [] c = "T" -> "t"
      [] c = "X" -> "x"
      [] OTHER -> c

\* str.lower()
Lower(s) == [i \in 1..Len(s) |-> LowerChar(s[i])]

\* str.startswith(p)
StartsWith(s, p) ==
    /\ Len(p) <= Len(s)
    /\ SubSeq(s, 1, Len(p)) = p

\* str.endswith(p)
EndsWith(s, p) ==
    /\ Len(p) <= Len(s)
    /\ SubSeq(s, Len(s) - Len(p) + 1, Len(s)) = p

\* p in s, for strings: p occurs in s as a substring
Contains(s, p) ==
    \E i \in 1..(Len(s) - Len(p) + 1) : SubSeq(s, i, i + Len(p) - 1) = p

\* str.rfind(c): the last index of character c in s (1-based), 0 when absent
RFind(s, c) ==
    LET at == {i \in 1..Len(s) : s[i] = c}
    IN  IF at = {} THEN 0 ELSE CHOOSE i \in at : \A j \in at : j <= i

\* s < t in Python's string order
RECURSIVE StrLess(_, _)
StrLess(s, t) ==
    IF t = <<>> THEN FALSE
    ELSE IF s = <<>> THEN TRUE
    ELSE IF Ord(Head(s)) # Ord(Head(t)) THEN Ord(Head(s)) < Ord(Head(t))
    ELSE StrLess(Tail(s), Tail(t))

\* c * n
RECURSIVE Rep(_, _)
Rep(c, n) == IF n = 0 THEN <<>> ELSE <<c>> \o Rep(c, n - 1)

\* sep.join(parts)
RECURSIVE Join(_, _)
Join(parts, sep) ==
    IF parts = <<>> THEN <<>>
    ELSE IF Len(parts) = 1 THEN parts[1]
    ELSE parts[1] \o sep \o Join(Tail(parts), sep)

\* The elements of a sequence.
Range(s) == {s[i] : i \in 1..Len(s)}

PYCACHE == <<"_", "_", "p", "y", "c", "a", "c", "h", "e", "_", "_">>
DOT_PYC == <<".", "p", "y", "c">>
DOT_PYO == <<".", "p", "y", "o">>
DOT_TXT == <<".", "t", "x", "t">>
DOT_TXT_UPPER == <<".", "T", "X", "T">>

(***************************************************************************)
(* Paths (pathlib.Path): an anchor and the components below it.            *)
(***************************************************************************)
\* Path.name: the final component, '' when there is none ('.' and '/')
PathName(p) == IF p.parts = <<>> THEN <<>> ELSE p.parts[Len(p.parts)]

\* str(path)
PathStr(p) ==
    IF p.abs THEN <<"/">> \o Join(p.parts, <<"/">>)
    ELSE IF p.parts = <<>> THEN <<".">>
    ELSE Join(p.parts, <<"/">>)

\* Path.suffix: the final component's last dot and what follows it, unless
\* that dot starts or ends the component
Suffix(p) ==
    LET name == PathName(p)
        i == RFind(name, ".")
    IN  IF 1 < i /\ i < Len(name) THEN SubSeq(name, i, Len(name)) ELSE <<>>

\* path / name
Child(p, name) == [p EXCEPT !.parts = Append(@, name)]

(***************************************************************************)
(* The filter policy of ConfigManager.                                     *)
(***************************************************************************)
\* DEFAULT_CONFIG
DEFAULT_CONFIG ==
    [include_hidden_files |-> FALSE,
     include_pycache |-> FALSE,
     output_to_console |-> TRUE,
     output_to_file |-> TRUE,
     include_file_contents |-> <<>>]

should_include_file(c, file_path) ==
    LET filename == PathName(file_path)
    IN  IF StartsWith(filename, <<".">>) /\ ~c.include_hidden_files
        THEN FALSE
        ELSE IF /\ ~c.include_pycache
                /\ \/ filename = PYCACHE
                   \/ EndsWith(filename, DOT_PYC)
                   \/ EndsWith(filename, DOT_PYO)
        THEN FALSE
        ELSE IF ~c.include_pycache /\ Contains(PathStr(file_path), PYCACHE)
        THEN FALSE
        ELSE TRUE

\* should_include_file_contents without the lower-casing of the extension
should_include_file_contents_nolower(c, file_path) ==
    LET extensions == c.include_file_contents
    IN  IF extensions = <<>> THEN FALSE
        ELSE Suffix(file_path) \in Range(extensions)

should_include_file_contents(c, file_path) ==
    LET extensions == c.include_file_contents
    IN  IF extensions = <<>> THEN FALSE
        ELSE LET file_extension == Lower(Suffix(file_path))
             IN  file_extension \in Range(extensions)

(***************************************************************************)
(* Names of entries, and the configurations, the model draws from.         *)
(***************************************************************************)
NameA == <<"a">>
NameUpperA == <<"A">>
NameB == <<"b">>
NameW == <<"w">>
NameHidden == <<".", "h">>
NamePyc == <<"a">> \o DOT_PYC
NameHiddenPyo == <<".", "e">> \o DOT_PYO
NameInfix == <<"x">> \o PYCACHE \o <<"y">>
NameTxt == <<"n">> \o DOT_TXT
NameTxtUpper == <<"N">> \o DOT_TXT_UPPER
NameATxt == <<"a">> \o DOT_TXT
NameBTxt == <<"b">> \o DOT_TXT
NameDotEnd == <<"a", ".">>

\* The names the filter policy is exercised on.
FilterNames ==
    {NameA, NameB, NameHidden, PYCACHE, NamePyc, NameHiddenPyo, NameInfix,
     NameTxt, NameTxtUpper, NameDotEnd}

\* The settings of include_file_contents the model draws from.
ExtensionLists ==
    {<<>>, <<DOT_TXT>>, <<DOT_TXT_UPPER>>, <<DOT_PYC, DOT_TXT>>}

\* Sequences over S of length lo..hi.
SeqsOf(S, lo, hi) == UNION {[1..n -> S] : n \in lo..hi}

(***************************************************************************)
(* The directory tree.  fs.nodes[i] is an entry below the root: its parent *)
(* (0 is the root), name, kind ("dir", "file", or "other" for an entry     *)
(* that is neither, such as a socket or a dangling link), what listing it  *)
(* (a directory) or reading it (a file) does, and its text.  fs.rootSt is  *)
(* what listing the root does.  An environment e holds the root path, the  *)
(* tree, the configuration and the order in which iterdir() lists.         *)
(***************************************************************************)
Env(r, t, c, rev) == [root |-> r, fs |-> t, cfg |-> c, rev |-> rev]

Node(e, i) == e.fs.nodes[i]

\* The path of entry i (0: the root), as iterdir() and rglob() build it.
RECURSIVE NodePath(_, _)
NodePath(e, i) ==
    IF i = 0 THEN e.root
    ELSE Child(NodePath(e, Node(e, i).parent), Node(e, i).name)

\* Path.is_dir(), Path.is_file()
is_dir(e, i) == i = 0 \/ Node(e, i).kind = "dir"
is_file(e, i) == i # 0 /\ Node(e, i).kind = "file"

\* What listing directory i does: "ok", "denied" (PermissionError) or
\* "oserror" (another OSError).
ListStatus(e, i) == IF i = 0 THEN e.fs.rootSt ELSE Node(e, i).st

Reverse(s) == [i \in 1..Len(s) |-> s[Len(s) + 1 - i]]

\* dir_path.iterdir(): the children of directory i in the order the
\* operating system lists them
iterdir(e, i) ==
    LET ids == [k \in 1..Len(e.fs.nodes) |-> k]
        kids == SelectSeq(ids, LAMBDA k : Node(e, k).parent = i)
    IN  IF e.rev THEN Reverse(kids) ELSE kids

\* The sort key (x.is_file(), x.name.lower()) of a, below that of b.
KeyLess(e, a, b) ==
    \/ ~is_file(e, a) /\ is_file(e, b)
    \/ /\ is_file(e, a) = is_file(e, b)
       /\ StrLess(Lower(Node(e, a).name), Lower(Node(e, b).name))

\* sorted() is stable: x goes before the first element whose key is larger.
RECURSIVE InsertSorted(_, _, _)
InsertSorted(e, acc, x) ==
    IF acc = <<>> THEN <<x>>
    ELSE IF KeyLess(e, x, Head(acc)) THEN <<x>> \o acc
    ELSE <<Head(acc)>> \o InsertSorted(e, Tail(acc), x)

RECURSIVE sorted(_, _)
sorted(e, s) ==
    IF s = <<>> THEN <<>>
    ELSE InsertSorted(e, sorted(e, SubSeq(s, 1, Len(s) - 1)), s[Len(s)])

\* ListedItems without the filter of the comprehension
ListedItems_unfiltered(e, i) == sorted(e, iterdir(e, i))

\* sorted([item for item in dir_path.iterdir()
\*         if config_manager.should_include_file(item)], key=...)
ListedItems(e, i) ==
    sorted(e, SelectSeq(iterdir(e, i),
                        LAMBDA k : should_include_file(e.cfg, NodePath(e, k))))

(***************************************************************************)
(* Lines.  The box-drawing characters are written TEE, ELL, HBAR and VBAR. *)
(* A line carries, beside its text, what it is ("root", "entry", "denied"  *)
(* or "diag") and the entry it was emitted for.                            *)
(***************************************************************************)
TEE_CONN == <<"TEE", "HBAR", "HBAR", " ">>
ELL_CONN == <<"ELL", "HBAR", "HBAR", " ">>
VBAR_PREFIX == <<"VBAR", " ", " ", " ">>
BLANK_PREFIX == <<" ", " ", " ", " ">>
PERMISSION_DENIED == <<"[Permission Denied]">>

\* Connector with the test of is_last lost
Connector_always_tee(is_last) == TEE_CONN

Connector(is_last) == IF is_last THEN ELL_CONN ELSE TEE_CONN

\* NextPrefix with the test of is_last lost
NextPrefix_always_bar(current_prefix, is_last) == current_prefix \o VBAR_PREFIX

NextPrefix(current_prefix, is_last) ==
    current_prefix \o (IF is_last THEN BLANK_PREFIX ELSE VBAR_PREFIX)

\* ErrorLine at the prefix of the directory itself instead of its children's
ErrorLine_parent_prefix(e, current_prefix, i) ==
    [text |-> SubSeq(current_prefix, 1, Len(current_prefix) - 4)
                \o TEE_CONN \o PERMISSION_DENIED,
     tag |-> "denied", node |-> i]

ErrorLine(e, current_prefix, i) ==
    [text |-> current_prefix \o TEE_CONN \o PERMISSION_DENIED,
     tag |-> "denied", node |-> i]

DirLine(e, current_prefix, is_last, i) ==
    [text |-> current_prefix \o Connector(is_last) \o Node(e, i).name \o <<"/">>,
     tag |-> "entry", node |-> i]

FileLine(e, current_prefix, is_last, i) ==
    [text |-> current_prefix \o Connector(is_last) \o Node(e, i).name,
     tag |-> "entry", node |-> i]

RootLine(e, prefix) ==
    [text |-> prefix \o PathName(e.root) \o <<"/">>, tag |-> "root", node |-> 0]

NotExistLine(e) ==
    [text |-> <<"Error: The path '">> \o PathStr(e.root) \o <<"' does not exist.">>,
     tag |-> "diag", node |-> 0]

NotDirLine(e) ==
    [text |-> <<"Error: The path '">> \o PathStr(e.root)
              \o <<"' is not a directory.">>,
     tag |-> "diag", node |-> 0]

(***************************************************************************)
(* print_tree_structure.  The result holds the lines in the order emitted  *)
(* and the exception that ended the traversal ("none" when it returned).   *)
(***************************************************************************)
RECURSIVE print_directory_contents(_, _, _)
RECURSIVE PrintItems(_, _, _, _)

\* _print_directory_contents(dir_path, current_prefix)
print_directory_contents(e, i, current_prefix) ==
    CASE ListStatus(e, i) = "denied" ->
            [lines |-> <<ErrorLine(e, current_prefix, i)>>, raised |-> "none"]
      [] ListStatus(e, i) = "oserror" ->
            [lines |-> <<>>, raised |-> "OSError"]
      [] OTHER -> PrintItems(e, ListedItems(e, i), 1, current_prefix)

\* the loop "for i, item in enumerate(items)", from its k-th round on
PrintItems(e, items, k, current_prefix) ==
    IF k > Len(items) THEN [lines |-> <<>>, raised |-> "none"]
    ELSE
      LET item == items[k]
          is_last == (k = Len(items))
      IN  IF is_dir(e, item)
          THEN LET sub == print_directory_contents(
                              e, item, NextPrefix(current_prefix, is_last))
                   here == <<DirLine(e, current_prefix, is_last, item)>>
                             \o sub.lines
               IN  IF sub.raised # "none"
                   THEN [lines |-> here, raised |-> sub.raised]
                   ELSE LET rest == PrintItems(e, items, k + 1, current_prefix)
                        IN  [lines |-> here \o rest.lines,
                             raised |-> rest.raised]
          ELSE LET rest == PrintItems(e, items, k + 1, current_prefix)
               IN  [lines |-> <<FileLine(e, current_prefix, is_last, item)>>
                                \o rest.lines,
                    raised |-> rest.raised]

\* print_tree_structure(folder_path, prefix, output_file, config_manager):
\* "printed" is what print() received, "written" what output_file.write()
\* received (has_file: output_file is not None)
print_tree_structure(e, kind, prefix, has_file) ==
    IF kind = "missing"
    THEN [printed |-> <<NotExistLine(e)>>, written |-> <<>>, raised |-> "none"]
    ELSE IF kind # "dir"
    THEN [printed |-> <<NotDirLine(e)>>, written |-> <<>>, raised |-> "none"]
    ELSE LET body == print_directory_contents(e, 0, prefix)
             all == <<RootLine(e, prefix)>> \o body.lines
         IN  [printed |-> all,
              written |-> IF has_file THEN all ELSE <<>>,
              raised |-> body.raised]

(***************************************************************************)
(* get_folder_structure_as_string.                                         *)
(***************************************************************************)
RECURSIVE capture_directory_contents(_, _, _)
RECURSIVE CaptureItems(_, _, _, _)

\* capture_directory_contents with nothing written for a directory whose
\* listing is denied
capture_directory_contents_silent_on_denied(e, i, current_prefix) ==
    CASE ListStatus(e, i) = "denied" -> [lines |-> <<>>, raised |-> "none"]
      [] ListStatus(e, i) = "oserror" ->
            [lines |-> <<>>, raised |-> "OSError"]
      [] OTHER -> CaptureItems(e, ListedItems(e, i), 1, current_prefix)

\* _capture_directory_contents(dir_path, current_prefix)
capture_directory_contents(e, i, current_prefix) ==
    CASE ListStatus(e, i) = "denied" ->
            [lines |-> <<ErrorLine(e, current_prefix, i)>>, raised |-> "none"]
      [] ListStatus(e, i) = "oserror" ->
            [lines |-> <<>>, raised |-> "OSError"]
      [] OTHER -> CaptureItems(e, ListedItems(e, i), 1, current_prefix)

CaptureItems(e, items, k, current_prefix) ==
    IF k > Len(items) THEN [lines |-> <<>>, raised |-> "none"]
    ELSE
      LET item == items[k]
          is_last == (k = Len(items))
      IN  IF is_dir(e, item)
          THEN LET sub == capture_directory_contents(
                              e, item, NextPrefix(current_prefix, is_last))
                   here == <<DirLine(e, current_prefix, is_last, item)>>
                             \o sub.lines
               IN  IF sub.raised # "none"
                   THEN [lines |-> here, raised |-> sub.raised]
                   ELSE LET rest == CaptureItems(e, items, k + 1, current_prefix)
                        IN  [lines |-> here \o rest.lines,
                             raised |-> rest.raised]
          ELSE LET rest == CaptureItems(e, items, k + 1, current_prefix)
               IN  [lines |-> <<FileLine(e, current_prefix, is_last, item)>>
                                \o rest.lines,
                    raised |-> rest.raised]

\* get_folder_structure_as_string(target_folder, config_manager): the lines
\* of the returned string; when the traversal raises nothing is returned
get_folder_structure_as_string(e, kind) ==
    IF kind = "missing"
    THEN [lines |-> <<NotExistLine(e)>>, raised |-> "none"]
    ELSE IF kind # "dir"
    THEN [lines |-> <<NotDirLine(e)>>, raised |-> "none"]
    ELSE LET body == capture_directory_contents(e, 0, <<>>)
         IN  IF body.raised # "none"
             THEN [lines |-> <<>>, raised |-> body.raised]
             ELSE [lines |-> <<RootLine(e, <<>>)>> \o body.lines,
                   raised |-> "none"]

(***************************************************************************)
(* collect_file_contents.                                                  *)
(***************************************************************************)
RECURSIVE RglobDir(_, _)
RECURSIVE RglobSubdirs(_, _, _)

\* folder_path.rglob("*") below directory i: the entries of i as listed,
\* then the same for each subdirectory of i in turn.  A directory whose
\* listing is denied yields nothing (pathlib absorbs PermissionError); any
\* other failure of a listing ends the iteration with that exception.
RglobDir(e, i) ==
    CASE ListStatus(e, i) = "denied" -> [items |-> <<>>, raised |-> "none"]
      [] ListStatus(e, i) = "oserror" -> [items |-> <<>>, raised |-> "OSError"]
      [] OTHER ->
            LET kids == iterdir(e, i)
                deeper == RglobSubdirs(e, kids, 1)
            IN  [items |-> kids \o deeper.items, raised |-> deeper.raised]

RglobSubdirs(e, kids, k) ==
    IF k > Len(kids) THEN [items |-> <<>>, raised |-> "none"]
    ELSE IF Node(e, kids[k]).kind # "dir" THEN RglobSubdirs(e, kids, k + 1)
    ELSE LET sub == RglobDir(e, kids[k])
         IN  IF sub.raised # "none" THEN sub
             ELSE LET rest == RglobSubdirs(e, kids, k + 1)
                  IN  [items |-> sub.items \o rest.items,
                       raised |-> rest.raised]

\* folder_path.rglob("*"): nothing when folder_path is not a directory
rglob(e, kind) ==
    IF kind # "dir" THEN [items |-> <<>>, raised |-> "none"]
    ELSE RglobDir(e, 0)

\* str(file_path.relative_to(folder_path))
RECURSIVE RelParts(_, _)
RelParts(e, i) ==
    IF i = 0 THEN <<>> ELSE Append(RelParts(e, Node(e, i).parent), Node(e, i).name)

relative_path(e, i) == Join(RelParts(e, i), <<"/">>)

\* The record appended for file i: its text, or the placeholder of the
\* except clause that catches the failure of the read.
ReadRecord(e, i) ==
    LET st == Node(e, i).st
    IN  [path |-> relative_path(e, i),
         node |-> i,
         content |->
            CASE st = "ok" -> Node(e, i).text
              [] st \in {"decode", "denied"} ->
                    <<"[Could not read file: ", st, "]">>
              [] OTHER -> <<"[Error reading file: ", st, "]">>]

\* CollectFrom with a failing read ending the loop
RECURSIVE CollectFrom_read_failure_ends_loop(_, _, _)
CollectFrom_read_failure_ends_loop(e, items, k) ==
    IF k > Len(items) THEN <<>>
    ELSE LET file_path == NodePath(e, items[k])
             rest == CollectFrom_read_failure_ends_loop(e, items, k + 1)
         IN  IF /\ is_file(e, items[k])
                /\ should_include_file(e.cfg, file_path)
                /\ should_include_file_contents(e.cfg, file_path)
             THEN IF Node(e, items[k]).st = "ok"
                  THEN <<ReadRecord(e, items[k])>> \o rest
                  ELSE <<ReadRecord(e, items[k])>>
             ELSE rest

\* the body of "for file_path in folder_path.rglob('*')" over items[k..]
RECURSIVE CollectFrom(_, _, _)
CollectFrom(e, items, k) ==
    IF k > Len(items) THEN <<>>
    ELSE LET file_path == NodePath(e, items[k])
             rest == CollectFrom(e, items, k + 1)
         IN  IF /\ is_file(e, items[k])
                /\ should_include_file(e.cfg, file_path)
                /\ should_include_file_contents(e.cfg, file_path)
             THEN <<ReadRecord(e, items[k])>> \o rest
             ELSE rest

\* collect_file_contents(folder_path, config_manager): the records, and
\* whether the warning of the outer except clause was printed
collect_file_contents(e, kind) ==
    LET walk == rglob(e, kind)
    IN  [records |-> CollectFrom(e, walk.items, 1),
         warned |-> walk.raised # "none"]

(***************************************************************************)
(* The entries and trees the model draws from.                             *)
(***************************************************************************)
TextNewline == <<"h", "i", "\n">>
TextNoNewline == <<"h", "i">>

Entry(name, kind, st, text) ==
    [name |-> name, kind |-> kind, st |-> st, text |-> text]

\* The entries a rendered tree is built from, in a fixed order.
TreePool ==
    <<Entry(NameTxt, "file", "ok", TextNewline),
      Entry(NameTxtUpper, "file", "ok", TextNoNewline),
      Entry(NameB, "dir", "ok", <<>>),
      Entry(NameHidden, "dir", "ok", <<>>),
      Entry(PYCACHE, "dir", "ok", <<>>),
      Entry(NameW, "dir", "denied", <<>>),
      Entry(NameA, "other", "ok", <<>>)>>

\* Parent vectors of the trees of k entries, each tree once: entry i hangs
\* below an earlier entry or the root, parents in ascending order.
ParentVectors(k) ==
    {ps \in [1..k -> 0..(k - 1)] :
        /\ \A i \in 1..k : ps[i] < i
        /\ \A i \in 1..(k - 1) : ps[i] <= ps[i + 1]}

\* The trees of k entries drawn from pool: only a directory has children,
\* and the children of one directory are pairwise distinct entries, held in
\* the order of the pool (iterdir lists them in that order or its reverse).
TreesOfSize(pool, k) ==
    UNION {
        {[i \in 1..k |-> [parent |-> ps[i]] @@ pool[ds[i]]] :
            ds \in {ds \in [1..k -> 1..Len(pool)] :
                      /\ \A i \in 1..k :
                            ps[i] # 0 => pool[ds[ps[i]]].kind = "dir"
                      /\ \A i, j \in 1..k :
                            (i < j /\ ps[i] = ps[j]) =>
                                /\ ds[i] < ds[j]
                                /\ pool[ds[i]].name # pool[ds[j]].name}}
        : ps \in ParentVectors(k)}

Trees(pool, n, rootSts) ==
    {[rootSt |-> st, nodes |-> t] :
        st \in rootSts, t \in UNION {TreesOfSize(pool, k) : k \in 0..n}}

\* Target paths: the default input_directory '.', and '/w'.
RootDot == [abs |-> FALSE, parts |-> <<>>]
RootW == [abs |-> TRUE, parts |-> <<NameW>>]

\* No call of the filter policy yet.
NoAnswer == [op |-> "none", val |-> FALSE]
NoFile == [state |-> "none", events |-> <<>>]
NoTree == [rootSt |-> "ok", nodes |-> <<>>]

\* No wizard: the state FolderAnalysisGUI.__init__ sets, and no folder on
\* its disk.
NoWizard ==
    /\ current_step = 0
    /\ output_folder = ""
    /\ target_folder = ""
    /\ selected_items = {}
    /\ content_extensions = {}
    /\ disk = NoTree
    /\ staged = <<>>

(***************************************************************************)
(* The filter policy on its own: a path and a configuration are drawn, and *)
(* each of its two functions is applied to them.                           *)
(***************************************************************************)
FilterConfigs ==
    {[DEFAULT_CONFIG EXCEPT !.include_hidden_files = h,
                            !.include_pycache = p,
                            !.include_file_contents = x] :
        h \in BOOLEAN, p \in BOOLEAN, x \in ExtensionLists}

InitFilter ==
    /\ cfg \in FilterConfigs
    /\ fpath \in {[abs |-> TRUE, parts |-> ps] :
                    ps \in SeqsOf(FilterNames, 1, MaxPathLen)}
    /\ fres = NoAnswer
    /\ root = RootW
    /\ rootKind = "dir"
    /\ fs = NoTree
    /\ outArg = "None"
    /\ pc = "filter"
    /\ console = <<>>
    /\ file = NoFile
    /\ exc = "none"
    /\ strOut = <<>>
    /\ recs = <<>>
    /\ NoWizard

CallShouldIncludeFile ==
    /\ pc = "filter"
    /\ fres' = [op |-> "should_include_file",
                val |-> should_include_file(cfg, fpath)]
    /\ UNCHANGED <<wizard, cfg, fpath, root, rootKind, fs, outArg, pc, console, file,
                   exc, strOut, recs>>

CallShouldIncludeFileContents ==
    /\ pc = "filter"
    /\ fres' = [op |-> "should_include_file_contents",
                val |-> should_include_file_contents(cfg, fpath)]
    /\ UNCHANGED <<wizard, cfg, fpath, root, rootKind, fs, outArg, pc, console, file,
                   exc, strOut, recs>>

NextFilter == CallShouldIncludeFile \/ CallShouldIncludeFileContents

SpecFilter == InitFilter /\ [][NextFilter]_vars

(***************************************************************************)
(* The output file and the console.  The file keeps every event in order:  *)
(* its opening, each write (with the section it belongs to: "tree",        *)
(* "banner" or "record", and the entry or record it was written for) and   *)
(* its closing.                                                            *)
(***************************************************************************)
Event(ev, sec, text, node) ==
    [ev |-> ev, sec |-> sec, text |-> text, node |-> node]

\* open(output_file_path, 'w', encoding='utf-8')
FileOpen(f) ==
    [state |-> "open", events |-> Append(f.events, Event("open", "", <<>>, 0))]

\* output_file.write(text) for each chunk in turn
FileWriteAll(f, chunks) == [f EXCEPT !.events = @ \o chunks]

\* output_file.close()
FileClose(f) ==
    [state |-> "closed",
     events |-> Append(f.events, Event("close", "", <<>>, 0))]

\* output_file.write(line + "\n") for a line of the tree
TreeChunk(line) == Event("write", line.tag, line.text \o <<"\n">>, line.node)

TreeChunks(lines) == [k \in 1..Len(lines) |-> TreeChunk(lines[k])]

\* A line print() sends to the console.
Printed(tag, text) == [text |-> text, tag |-> tag, node |-> 0]

RULE_WIDTH == 50
BANNER_WIDTH == 60
SEPARATOR_WIDTH == 40

\* target_path.absolute(): the working directory is /w
absolute(p) == IF p.abs THEN p ELSE [abs |-> TRUE, parts |-> <<NameW>> \o p.parts]

Rule == Printed("rule", Rep("=", RULE_WIDTH))

\* EndsWithNewline with the test lost: a line break is always appended
EndsWithNewline_never(content) == FALSE

\* content.endswith('\n')
EndsWithNewline(content) == EndsWith(content, <<"\n">>)

\* The writes of the content section for one record (lines 173-178).
RecordChunks(rec) ==
    <<Event("write", "record-head", rec.path \o <<" contents:", "\n">>, rec.node),
      Event("write", "record-rule", Rep("-", SEPARATOR_WIDTH) \o <<"\n">>, rec.node),
      Event("write", "record-text", rec.content, rec.node)>>
    \o (IF ~EndsWithNewline(rec.content)
        THEN <<Event("write", "record-newline", <<"\n">>, rec.node)>>
        ELSE <<>>)
    \o <<Event("write", "record-end",
               Rep("-", SEPARATOR_WIDTH) \o <<"\n", "\n">>, rec.node)>>

\* AllRecordChunks with the records written last collected first
RECURSIVE AllRecordChunks_reversed(_)
AllRecordChunks_reversed(records) ==
    IF records = <<>> THEN <<>>
    ELSE AllRecordChunks_reversed(Tail(records)) \o RecordChunks(Head(records))

RECURSIVE AllRecordChunks(_)
AllRecordChunks(records) ==
    IF records = <<>> THEN <<>>
    ELSE RecordChunks(Head(records)) \o AllRecordChunks(Tail(records))

\* The writes of the banner (lines 168-170).
BannerChunks ==
    <<Event("write", "banner", <<"\n">> \o Rep("=", BANNER_WIDTH) \o <<"\n">>, 0),
      Event("write", "banner", <<"FILE CONTENTS", "\n">>, 0),
      Event("write", "banner", Rep("=", BANNER_WIDTH) \o <<"\n", "\n">>, 0)>>

\* The writes of the content section (lines 167-178): none without records.
ContentChunks(records) ==
    IF records = <<>> THEN <<>> ELSE BannerChunks \o AllRecordChunks(records)

(***************************************************************************)
(* analyze_folder(target_folder, output_folder, config_manager), step by   *)
(* step.  pc: "idle" (not called), "setup", "try", "contents", "finally",  *)
(* then "returned" or "raised" (the exception reached the caller).         *)
(***************************************************************************)
ConsoleOn == cfg.output_to_console

\* lines 126-144: the output folder is resolved, the heading printed
AnalyzeStart ==
    /\ pc = "idle"
    /\ outArg' = IF outArg = "None" /\ cfg.output_to_file
                 THEN "output_directory" ELSE outArg
    /\ console' = IF ConsoleOn
                  THEN console
                         \o <<Printed("heading",
                                <<"Analyzing folder structure of: ">>
                                  \o PathStr(absolute(root))),
                              Rule>>
                  ELSE console
    /\ pc' = "setup"
    /\ UNCHANGED <<wizard, cfg, fpath, fres, root, rootKind, fs, file, exc, strOut, recs>>

\* lines 146-154: the output file is opened when there is an output folder
OpenOutput ==
    /\ pc = "setup"
    /\ IF outArg # "None"
       THEN /\ file' = FileOpen(file)
            /\ console' = IF ConsoleOn
                          THEN console
                                 \o <<Printed("saving",
                                        <<"Results will be saved to: ">>), Rule>>
                          ELSE console
       ELSE UNCHANGED <<file, console>>
    /\ pc' = "try"
    /\ UNCHANGED <<wizard, cfg, fpath, fres, root, rootKind, fs, outArg, exc, strOut, recs>>

\* The OSError that output_file.write() raises (a full disk, say), apart
\* from the OSError of a failing listing.
WriteError == "OSError(write)"

\* The writes of a pass that reach the file when write number wf fails
\* (0: none does).
Written(chunks, wf) == IF wf = 0 THEN chunks ELSE SubSeq(chunks, 1, wf - 1)

\* lines 156-161: the tree is printed, and written when a file is open;
\* rev is the order of the listings, wf the write that fails (0: none)
TreePass ==
    /\ pc = "try"
    /\ IF ConsoleOn \/ file.state = "open"
       THEN \E rev \in BOOLEAN :
              LET r == print_tree_structure(Env(root, fs, cfg, rev), rootKind,
                                            <<>>, file.state = "open")
              IN  \E wf \in 0..Len(r.written) :
                    /\ console' = console \o (IF wf = 0 THEN r.printed
                                              ELSE SubSeq(r.printed, 1, wf))
                    /\ file' = FileWriteAll(file,
                                            Written(TreeChunks(r.written), wf))
                    /\ exc' = IF wf # 0 THEN WriteError ELSE r.raised
       ELSE UNCHANGED <<console, file, exc>>
    /\ pc' = IF exc' = "none" THEN "contents" ELSE "finally"
    /\ UNCHANGED <<wizard, cfg, fpath, fres, root, rootKind, fs, outArg, strOut, recs>>

\* ContentPass with the test of include_file_contents and the test of
\* file_contents lost
ContentPass_unguarded ==
    /\ pc = "contents"
    /\ IF file.state = "open"
       THEN \E rev \in BOOLEAN :
              LET fc == collect_file_contents(Env(root, fs, cfg, rev), rootKind)
                  chunks == BannerChunks \o AllRecordChunks(fc.records)
              IN  /\ recs' = fc.records
                  /\ console' = console
                  /\ file' = FileWriteAll(file, chunks)
                  /\ exc' = "none"
       ELSE UNCHANGED <<recs, console, file, exc>>
    /\ pc' = "finally"
    /\ UNCHANGED <<wizard, cfg, fpath, fres, root, rootKind, fs, outArg, strOut>>

\* lines 163-178: the contents are collected and written to the file
ContentPass ==
    /\ pc = "contents"
    /\ IF file.state = "open" /\ cfg.include_file_contents # <<>>
       THEN \E rev \in BOOLEAN :
              LET fc == collect_file_contents(Env(root, fs, cfg, rev), rootKind)
                  chunks == ContentChunks(fc.records)
              IN  \E wf \in 0..Len(chunks) :
                    /\ recs' = fc.records
                    /\ console' = IF fc.warned
                                  THEN Append(console,
                                         Printed("warning",
                                           <<"Warning: Error collecting file contents: ">>))
                                  ELSE console
                    /\ file' = FileWriteAll(file, Written(chunks, wf))
                    /\ exc' = IF wf # 0 THEN WriteError ELSE "none"
       ELSE UNCHANGED <<recs, console, file, exc>>
    /\ pc' = "finally"
    /\ UNCHANGED <<wizard, cfg, fpath, fres, root, rootKind, fs, outArg, strOut>>

\* Finally with the close after the try block instead of in a finally
\* clause: an exception skips it
Finally_close_skipped_on_raise ==
    /\ pc = "finally"
    /\ IF file.state = "open" /\ exc = "none"
       THEN /\ file' = FileClose(file)
            /\ console' = console
       ELSE UNCHANGED <<file, console>>
    /\ pc' = IF exc = "none" THEN "returned" ELSE "raised"
    /\ UNCHANGED <<wizard, cfg, fpath, fres, root, rootKind, fs, outArg, exc, strOut, recs>>

\* lines 179-186: the finally clause closes the file; then the function
\* returns, or the exception goes on to the caller
Finally ==
    /\ pc = "finally"
    /\ IF file.state = "open"
       THEN /\ file' = FileClose(file)
            /\ console' = IF ConsoleOn
                          THEN console
                                 \o <<Rule, Printed("done",
                                        <<"Analysis complete! Results saved to: ">>)>>
                          ELSE console
       ELSE UNCHANGED <<file, console>>
    /\ pc' = IF exc = "none" THEN "returned" ELSE "raised"
    /\ UNCHANGED <<wizard, cfg, fpath, fres, root, rootKind, fs, outArg, exc, strOut, recs>>

\* get_folder_structure_as_string(target_folder, config_manager)
GetString ==
    /\ pc \in {"idle", "api"}
    /\ \E rev \in BOOLEAN :
          LET r == get_folder_structure_as_string(Env(root, fs, cfg, rev), rootKind)
          IN  /\ strOut' = r.lines
              /\ exc' = r.raised
    /\ pc' = IF exc' = "none" THEN "string-returned" ELSE "string-raised"
    /\ UNCHANGED <<wizard, cfg, fpath, fres, root, rootKind, fs, outArg, console, file, recs>>

\* The entries a tree handed to a run is built from.
RunPool ==
    <<Entry(NameTxt, "file", "ok", TextNewline),
      Entry(NameTxtUpper, "file", "ok", TextNoNewline),
      Entry(NameATxt, "file", "decode", <<>>),
      Entry(NameB, "dir", "ok", <<>>),
      Entry(NameHidden, "dir", "ok", <<>>),
      Entry(NameW, "dir", "denied", <<>>),
      Entry(NameUpperA, "dir", "oserror", <<>>)>>

RunConfigs ==
    {[DEFAULT_CONFIG EXCEPT !.include_hidden_files = h,
                            !.output_to_console = c,
                            !.output_to_file = f,
                            !.include_file_contents = x] :
        h \in BOOLEAN, c \in BOOLEAN, f \in BOOLEAN, x \in {<<>>, <<DOT_TXT>>}}

Init ==
    /\ cfg \in RunConfigs
    /\ fpath = RootW
    /\ fres = NoAnswer
    /\ root = RootW
    /\ rootKind \in {"dir", "file", "missing"}
    /\ fs \in IF rootKind = "dir"
              THEN Trees(RunPool, MaxRunEntries, {"ok", "denied", "oserror"})
              ELSE {NoTree}
    /\ outArg \in {"None", "out"}
    /\ pc = "idle"
    /\ console = <<>>
    /\ file = NoFile
    /\ exc = "none"
    /\ strOut = <<>>
    /\ recs = <<>>
    /\ NoWizard

Next ==
    \/ AnalyzeStart
    \/ OpenOutput
    \/ TreePass
    \/ ContentPass
    \/ Finally
    \/ GetString

Spec == Init /\ [][Next]_vars

(***************************************************************************)
(* The renderer and the content pass on their own: a caller hands a tree   *)
(* to print_tree_structure, get_folder_structure_as_string or              *)
(* collect_file_contents.                                                  *)
(***************************************************************************)
TreeConfigs ==
    {[DEFAULT_CONFIG EXCEPT !.include_hidden_files = h,
                            !.include_pycache = p,
                            !.include_file_contents = <<DOT_TXT>>] :
        h \in BOOLEAN, p \in BOOLEAN}

InitTree ==
    /\ cfg \in TreeConfigs
    /\ fpath = RootW
    /\ fres = NoAnswer
    /\ root = RootW
    /\ rootKind \in {"dir", "file", "missing"}
    /\ fs \in IF rootKind = "dir"
              THEN Trees(TreePool, MaxEntries, {"ok", "denied", "oserror"})
              ELSE {NoTree}
    /\ outArg = "None"
    /\ pc = "api"
    /\ console = <<>>
    /\ file = NoFile
    /\ exc = "none"
    /\ strOut = <<>>
    /\ recs = <<>>
    /\ NoWizard

\* print_tree_structure(folder_path, "", output_file, config_manager), with
\* an open output file or with none
PrintTree ==
    /\ pc = "api"
    /\ \E rev \in BOOLEAN, has_file \in BOOLEAN :
          LET r == print_tree_structure(Env(root, fs, cfg, rev), rootKind,
                                        <<>>, has_file)
          IN  /\ console' = r.printed
              /\ file' = IF has_file
                         THEN FileWriteAll(FileOpen(file), TreeChunks(r.written))
                         ELSE file
              /\ exc' = r.raised
    /\ pc' = IF exc' = "none" THEN "tree-returned" ELSE "tree-raised"
    /\ UNCHANGED <<wizard, cfg, fpath, fres, root, rootKind, fs, outArg, strOut, recs>>

\* collect_file_contents(folder_path, config_manager)
Collect ==
    /\ pc = "api"
    /\ \E rev \in BOOLEAN :
          LET fc == collect_file_contents(Env(root, fs, cfg, rev), rootKind)
          IN  /\ recs' = fc.records
              /\ console' = IF fc.warned
                            THEN <<Printed("warning",
                                     <<"Warning: Error collecting file contents: ">>)>>
                            ELSE console
    /\ pc' = "collected"
    /\ UNCHANGED <<wizard, cfg, fpath, fres, root, rootKind, fs, outArg, file, exc, strOut>>

NextTree == PrintTree \/ GetString \/ Collect

SpecTree == InitTree /\ [][NextTree]_vars

(***************************************************************************)
(* The renderer on an existing directory under each spelling of its path:  *)
(* '/w', the relative 'b' and the default input_directory '.'.             *)
(***************************************************************************)
RootRel == [abs |-> FALSE, parts |-> <<NameB>>]

InitRoot ==
    /\ cfg \in TreeConfigs
    /\ fpath = RootW
    /\ fres = NoAnswer
    /\ root \in {RootDot, RootRel, RootW}
    /\ rootKind = "dir"
    /\ fs \in Trees(TreePool, MaxRunEntries, {"ok", "denied"})
    /\ outArg = "None"
    /\ pc = "api"
    /\ console = <<>>
    /\ file = NoFile
    /\ exc = "none"
    /\ strOut = <<>>
    /\ recs = <<>>
    /\ NoWizard

SpecRoot == InitRoot /\ [][NextTree]_vars

(***************************************************************************)
(* The content pass on its own, over trees whose files fail to be read in  *)
(* each of the ways the except clauses tell apart.                         *)
(***************************************************************************)
CollectPool ==
    <<Entry(NameTxt, "file", "ok", TextNewline),
      Entry(NameTxtUpper, "file", "decode", <<>>),
      Entry(NameATxt, "file", "denied", <<>>),
      Entry(NameBTxt, "file", "oserror", <<>>),
      Entry(NameA, "file", "ok", TextNoNewline),
      Entry(NameB, "dir", "ok", <<>>),
      Entry(NameHidden, "dir", "ok", <<>>),
      Entry(NameW, "dir", "denied", <<>>),
      Entry(NameUpperA, "dir", "oserror", <<>>)>>

InitCollect ==
    /\ cfg \in TreeConfigs
    /\ fpath = RootW
    /\ fres = NoAnswer
    /\ root = RootW
    /\ rootKind \in {"dir", "file", "missing"}
    /\ fs \in IF rootKind = "dir"
              THEN Trees(CollectPool, MaxEntries, {"ok", "denied", "oserror"})
              ELSE {NoTree}
    /\ outArg = "None"
    /\ pc = "api"
    /\ console = <<>>
    /\ file = NoFile
    /\ exc = "none"
    /\ strOut = <<>>
    /\ recs = <<>>
    /\ NoWizard

NextCollect == Collect

SpecCollect == InitCollect /\ [][NextCollect]_vars

(***************************************************************************)
(* The wizard (FolderAnalysisGUI).  pc is "wizard" while its window takes  *)
(* events, "cancelled" once it was cancelled, "quit" once an analysis has  *)
(* succeeded; finish_analysis hands a tree to analyze_folder, whose run    *)
(* then goes on step by step as above, and shows how the run ended.  The   *)
(* entries of the target folder are named by their place in disk.nodes, 0  *)
(* being the target folder itself.                                         *)
(***************************************************************************)
\* The folder the dialogs offer, and the scratch directory of a run.
OUT_FOLDER == "out"
TARGET_FOLDER == "w"

\* The target folder as the wizard reads it.
Disk == Env(RootW, disk, cfg, FALSE)

\* analysis_root = temp_path / target_path.name
analysis_root == [abs |-> TRUE, parts |-> <<<<"t">>, PathName(RootW)>>]

\* The entries the wizard's disk is built from.
GuiPool ==
    <<Entry(NameTxt, "file", "ok", TextNewline),
      Entry(NameATxt, "file", "decode", <<>>),
      Entry(NameB, "dir", "ok", <<>>),
      Entry(NameHidden, "dir", "ok", <<>>),
      Entry(NameW, "dir", "denied", <<>>)>>

RECURSIVE DiskDepth(_)
DiskDepth(i) == IF i = 0 THEN 0 ELSE 1 + DiskDepth(disk.nodes[i].parent)

\* add_tree_items: entry i has an item in the tree widget.  The widget shows
\* the target folder and, three levels deep, the entries that pass
\* should_include_file below directories that are shown and can be listed.
RECURSIVE InTreeWidget(_)
InTreeWidget(i) ==
    \/ i = 0
    \/ /\ DiskDepth(i) <= 3
       /\ should_include_file(cfg, NodePath(Disk, i))
       /\ InTreeWidget(disk.nodes[i].parent)
       /\ is_dir(Disk, disk.nodes[i].parent)
       /\ ListStatus(Disk, disk.nodes[i].parent) = "ok"

\* The entries dir_path.rglob("*") yields below entry i.
RglobBelow(i) == Range(RglobDir(Disk, i).items)

\* add_children_to_selection(dir_path)
add_children_to_selection(sel, i) ==
    sel \cup {j \in RglobBelow(i) : should_include_file(cfg, NodePath(Disk, j))}

\* remove_children_from_selection(dir_path)
remove_children_from_selection(sel, i) ==
    sel \ {j \in sel :
              StartsWith(PathStr(NodePath(Disk, j)),
                         PathStr(NodePath(Disk, i)) \o <<"/">>)}

\* get_selected_extensions()
get_selected_extensions ==
    {Lower(Suffix(NodePath(Disk, i))) :
        i \in {j \in selected_items :
                 is_file(Disk, j) /\ Lower(Suffix(NodePath(Disk, j))) # <<>>}}

\* browse_output_folder: the dialog returns a folder, or '' when cancelled
BrowseOutputFolder ==
    /\ pc = "wizard"
    /\ current_step = 0
    /\ \E folder \in {"", OUT_FOLDER} :
          output_folder' = IF folder # "" THEN folder ELSE output_folder
    /\ UNCHANGED <<current_step, target_folder, selected_items,
                   content_extensions, disk, staged>>
    /\ UNCHANGED <<cfg, fpath, fres, root, rootKind, fs, outArg, pc, console,
                   file, exc, strOut, recs>>

\* browse_target_folder: a folder returned clears the selection
BrowseTargetFolder ==
    /\ pc = "wizard"
    /\ current_step = 1
    /\ \E folder \in {"", TARGET_FOLDER} :
          IF folder # ""
          THEN /\ target_folder' = folder
               /\ selected_items' = {}
          ELSE UNCHANGED <<target_folder, selected_items>>
    /\ UNCHANGED <<current_step, output_folder, content_extensions, disk, staged>>
    /\ UNCHANGED <<cfg, fpath, fres, root, rootKind, fs, outArg, pc, console,
                   file, exc, strOut, recs>>

\* toggle_selection on the item of entry i of the tree widget
ToggleSelection ==
    /\ pc = "wizard"
    /\ current_step = 1
    /\ target_folder # ""
    /\ \E i \in {j \in {0} \cup (1..Len(disk.nodes)) : InTreeWidget(j)} :
          selected_items' =
             IF i \in selected_items
             THEN remove_children_from_selection(selected_items \ {i}, i)
             ELSE IF is_dir(Disk, i)
                  THEN add_children_to_selection(selected_items \cup {i}, i)
                  ELSE selected_items \cup {i}
    /\ UNCHANGED <<current_step, output_folder, target_folder,
                   content_extensions, disk, staged>>
    /\ UNCHANGED <<cfg, fpath, fres, root, rootKind, fs, outArg, pc, console,
                   file, exc, strOut, recs>>

\* toggle_extension(ext, var) on a check box of the last step
ToggleExtension ==
    /\ pc = "wizard"
    /\ current_step = 2
    /\ \E ext \in get_selected_extensions :
          content_extensions' =
             IF ext \in content_extensions
             THEN content_extensions \ {ext}
             ELSE content_extensions \cup {ext}
    /\ UNCHANGED <<current_step, output_folder, target_folder, selected_items,
                   disk, staged>>
    /\ UNCHANGED <<cfg, fpath, fres, root, rootKind, fs, outArg, pc, console,
                   file, exc, strOut, recs>>

\* select_all_extensions
SelectAllExtensions ==
    /\ pc = "wizard"
    /\ current_step = 2
    /\ get_selected_extensions # {}
    /\ content_extensions' = content_extensions \cup get_selected_extensions
    /\ UNCHANGED <<current_step, output_folder, target_folder, selected_items,
                   disk, staged>>
    /\ UNCHANGED <<cfg, fpath, fres, root, rootKind, fs, outArg, pc, console,
                   file, exc, strOut, recs>>

\* select_no_extensions
SelectNoExtensions ==
    /\ pc = "wizard"
    /\ current_step = 2
    /\ get_selected_extensions # {}
    /\ content_extensions' = content_extensions \ get_selected_extensions
    /\ UNCHANGED <<current_step, output_folder, target_folder, selected_items,
                   disk, staged>>
    /\ UNCHANGED <<cfg, fpath, fres, root, rootKind, fs, outArg, pc, console,
                   file, exc, strOut, recs>>

\* go_back
GoBack ==
    /\ pc = "wizard"
    /\ current_step > 0
    /\ current_step' = current_step - 1
    /\ UNCHANGED <<output_folder, target_folder, selected_items,
                   content_extensions, disk, staged>>
    /\ UNCHANGED <<cfg, fpath, fres, root, rootKind, fs, outArg, pc, console,
                   file, exc, strOut, recs>>

\* validate_current_step with the tests of the folders lost
validate_current_step_always == TRUE

\* validate_current_step
validate_current_step ==
    IF current_step = 0 THEN output_folder # ""
    ELSE IF current_step = 1 THEN target_folder # ""
    ELSE TRUE

\* show_content_selection: a box is ticked from the start when its
\* extension is in the configuration's include_file_contents
show_content_selection ==
    content_extensions
      \cup (get_selected_extensions \cap Range(cfg.include_file_contents))

\* go_next before the last step: the step goes up when it validates, and
\* show_step shows the new step
GoNext ==
    /\ pc = "wizard"
    /\ current_step # 2
    /\ current_step' = IF validate_current_step
                       THEN current_step + 1 ELSE current_step
    /\ content_extensions' = IF current_step' = 2 /\ current_step # 2
                             THEN show_content_selection
                             ELSE content_extensions
    /\ UNCHANGED <<output_folder, target_folder, selected_items, disk, staged>>
    /\ UNCHANGED <<cfg, fpath, fres, root, rootKind, fs, outArg, pc, console,
                   file, exc, strOut, recs>>

\* cancel, confirmed
Cancel ==
    /\ pc = "wizard"
    /\ pc' = "cancelled"
    /\ UNCHANGED <<wizard, cfg, fpath, fres, root, rootKind, fs, outArg, console,
                   file, exc, strOut, recs>>

\* The files finish_analysis copies into the scratch directory: the
\* selected files, and below each selected directory the files that
\* rglob("*") yields and should_include_file accepts.
CopiedFiles ==
    {i \in selected_items : is_file(Disk, i)}
    \cup UNION {{j \in RglobBelow(d) :
                    /\ should_include_file(cfg, NodePath(Disk, j))
                    /\ is_file(Disk, j)} :
                d \in {i \in selected_items : is_dir(Disk, i)}}

\* Entry i is above entry j or is j.
RECURSIVE DiskAbove(_, _)
DiskAbove(i, j) ==
    \/ i = j
    \/ j # 0 /\ DiskAbove(i, disk.nodes[j].parent)

\* The entries of the scratch directory: the copied files, the selected
\* directories (dest_path.mkdir) and the directories above either
\* (parents=True), in the order of disk.nodes.
ScratchEntries ==
    LET made == CopiedFiles \cup {i \in selected_items : is_dir(Disk, i)}
        ids == [k \in 1..Len(disk.nodes) |-> k]
    IN  SelectSeq(ids, LAMBDA i : \E j \in made : DiskAbove(i, j))

\* The place of entry i in sequence keep, 0 for the target folder.
PlaceIn(keep, i) ==
    IF i = 0 THEN 0 ELSE CHOOSE k \in DOMAIN keep : keep[k] = i

\* The tree of the scratch directory: the kept entries, each directory
\* freshly made and listable, each file with the content copied.
ScratchTree(keep) ==
    [rootSt |-> "ok",
     nodes |-> [k \in DOMAIN keep |->
                  LET n == disk.nodes[keep[k]]
                  IN  [n EXCEPT !.parent = PlaceIn(keep, n.parent),
                                !.st = IF n.kind = "dir" THEN "ok" ELSE n.st]]]

\* list(self.content_extensions): the set in some order
ListsOf(S) == {q \in SeqsOf(S, Cardinality(S), Cardinality(S)) : Range(q) = S}

\* go_next on the last step, finish_analysis: the selection is staged in the
\* scratch directory and analyze_folder is called on it, or on the target
\* folder when nothing is selected
FinishAnalysis ==
    /\ pc = "wizard"
    /\ current_step = 2
    /\ \E exts \in ListsOf(content_extensions) :
          cfg' = [cfg EXCEPT !.include_file_contents = exts]
    /\ IF selected_items # {}
       THEN /\ staged' = ScratchEntries
            /\ root' = analysis_root
            /\ fs' = ScratchTree(ScratchEntries)
       ELSE /\ staged' = <<>>
            /\ root' = RootW
            /\ fs' = disk
    /\ rootKind' = "dir"
    /\ outArg' = IF output_folder = "" THEN "None" ELSE output_folder
    /\ pc' = "idle"
    /\ UNCHANGED <<current_step, output_folder, target_folder, selected_items,
                   content_extensions, disk>>
    /\ UNCHANGED <<fpath, fres, console, file, exc, strOut, recs>>

\* finish_analysis once analyze_folder has returned: the success box, and
\* self.root.quit()
ShowSuccess ==
    /\ pc = "returned"
    /\ pc' = "quit"
    /\ UNCHANGED <<wizard, cfg, fpath, fres, root, rootKind, fs, outArg, console,
                   file, exc, strOut, recs>>

\* finish_analysis when analyze_folder raised: the except clause shows the
\* error box and the wizard goes on taking events.  The record of the
\* failed run is dropped: the next run opens the output file anew.
ShowError ==
    /\ pc = "raised"
    /\ pc' = "wizard"
    /\ console' = <<>>
    /\ file' = NoFile
    /\ exc' = "none"
    /\ recs' = <<>>
    /\ UNCHANGED <<wizard, cfg, fpath, fres, root, rootKind, fs, outArg, strOut>>

InitGui ==
    /\ cfg = DEFAULT_CONFIG
    /\ fpath = RootW
    /\ fres = NoAnswer
    /\ root = RootW
    /\ rootKind = "dir"
    /\ fs = NoTree
    /\ outArg = "None"
    /\ pc = "wizard"
    /\ console = <<>>
    /\ file = NoFile
    /\ exc = "none"
    /\ strOut = <<>>
    /\ recs = <<>>
    /\ current_step = 0
    /\ output_folder = ""
    /\ target_folder = ""
    /\ selected_items = {}
    /\ content_extensions = {}
    /\ disk \in Trees(GuiPool, MaxGuiEntries, {"ok", "denied"})
    /\ staged = <<>>

NextGui ==
    \/ BrowseOutputFolder
    \/ BrowseTargetFolder
    \/ ToggleSelection
    \/ ToggleExtension
    \/ SelectAllExtensions
    \/ SelectNoExtensions
    \/ GoBack
    \/ GoNext
    \/ Cancel
    \/ FinishAnalysis
    \/ AnalyzeStart
    \/ OpenOutput
    \/ TreePass
    \/ ContentPass
    \/ Finally
    \/ ShowSuccess
    \/ ShowError

SpecGui == InitGui /\ [][NextGui]_vars

(***************************************************************************)
(* Claims about the filter policy (SpecFilter).                            *)
(***************************************************************************)
\* Case (a) of C7: a hidden name while include_hidden_files is off.
HiddenCase(c, p) ==
    /\ Len(PathName(p)) >= 1
    /\ PathName(p)[1] = "."
    /\ ~c.include_hidden_files

\* Case (b) of C7: include_pycache is off and the entry is named
\* __pycache__, or its name ends with .pyc or .pyo, or one of its ancestor
\* directories is named __pycache__.
CacheCase(c, p) ==
    /\ ~c.include_pycache
    /\ \/ PathName(p) = PYCACHE
       \/ EndsWith(PathName(p), DOT_PYC)
       \/ EndsWith(PathName(p), DOT_PYO)
       \/ \E k \in 1..(Len(p.parts) - 1) : p.parts[k] = PYCACHE

\* C7: should_include_file(entry) returns False exactly when the entry is
\* hidden while include_hidden_files is off (a), or include_pycache is off
\* and the entry is a cache artifact by its name, its suffix or the name of
\* one of its ancestor directories (b); it returns True otherwise.
C7_ExcludedExactlyWhen ==
    fres.op = "should_include_file" =>
        (fres.val = FALSE <=> (HiddenCase(cfg, fpath) \/ CacheCase(cfg, fpath)))

\* C8: should_include_file_contents(entry) returns False whenever the
\* configured extension sequence is empty, and otherwise True if and only
\* if the entry's extension, lower-cased and with its leading '.', is a
\* member of the configured sequence.
C8_ContentsByLoweredExtension ==
    fres.op = "should_include_file_contents" =>
        fres.val =
            (/\ cfg.include_file_contents # <<>>
             /\ \E k \in 1..Len(cfg.include_file_contents) :
                    cfg.include_file_contents[k] = Lower(Suffix(fpath)))

\* C8's case: an upper-case extension is accepted through its lower-cased
\* form, after the policy was asked.
C8_Witness ==
    /\ fres.op = "should_include_file_contents"
    /\ fres.val = TRUE
    /\ PathName(fpath) = NameTxtUpper
    /\ cfg.include_file_contents = <<DOT_TXT>>

(***************************************************************************)
(* What the claims about the rendered tree and the run speak of.           *)
(***************************************************************************)
\* The tree and configuration of the state, for questions that do not
\* depend on the order of the listings.
Here == Env(root, fs, cfg, FALSE)

Entries == 1..Len(fs.nodes)

\* should_include_file returns False for entry i under the configuration.
Excluded(i) == ~should_include_file(cfg, NodePath(Here, i))

RECURSIVE Depth(_)
Depth(i) == IF i = 0 THEN 0 ELSE 1 + Depth(fs.nodes[i].parent)

\* Directory d is a proper ancestor of entry i.
RECURSIVE Below(_, _)
Below(d, i) ==
    /\ i # 0
    /\ \/ fs.nodes[i].parent = d
       \/ Below(d, fs.nodes[i].parent)

TreeTags == {"root", "entry", "denied"}
RecordSecs ==
    {"record-head", "record-rule", "record-text", "record-newline", "record-end"}

\* The lines of the tree the output file received, in order.
FileLines == SelectSeq(file.events, LAMBDA v : v.ev = "write" /\ v.sec \in TreeTags)

\* The writes of the content section the output file received, in order.
FileContent ==
    SelectSeq(file.events,
              LAMBDA v : v.ev = "write" /\ v.sec \in RecordSecs \cup {"banner"})

Count(seq, Test(_)) == Len(SelectSeq(seq, Test))

Opened == Count(file.events, LAMBDA v : v.ev = "open") > 0

\* The tree a call of the renderer on its own has returned: the lines
\* print_tree_structure printed, or the lines of the string
\* get_folder_structure_as_string returned.
Out ==
    IF pc = "tree-returned" THEN console
    ELSE IF pc = "string-returned" THEN strOut
    ELSE <<>>

\* The renderer that produced Out, applied to tree t listed in order rev.
Rerender(t, rev) ==
    IF pc = "tree-returned"
    THEN print_tree_structure(Env(root, t, cfg, rev), rootKind, <<>>, FALSE).printed
    ELSE get_folder_structure_as_string(Env(root, t, cfg, rev), rootKind).lines

\* The positions in Out of the lines of entry i.
LinesOf(i, tag) == {k \in DOMAIN Out : Out[k].tag = tag /\ Out[k].node = i}

\* Directory d was reached by the traversal that produced Out.
Reached(d) ==
    /\ rootKind = "dir"
    /\ Out # <<>>
    /\ d = 0 \/ (fs.nodes[d].kind = "dir" /\ LinesOf(d, "entry") # {})

\* The connector of an entry's line: the four characters after the prefix
\* of its depth.
ConnOf(line) ==
    SubSeq(line.text, 4 * (Depth(line.node) - 1) + 1, 4 * Depth(line.node))

\* The prefix of an entry's line.
PrefixOf(line) == SubSeq(line.text, 1, 4 * (Depth(line.node) - 1))

C4_DiagnosticToEveryActiveDestination ==
    /\ (pc = "returned" /\ rootKind # "dir") =>
          /\ ConsoleOn =>
                Count(console, LAMBDA l : l.tag = "diag") = 1
          /\ Opened =>
                Count(file.events, LAMBDA v : v.sec = "diag") = 1
          /\ Count(console, LAMBDA l : l.tag \in TreeTags) = 0
          /\ FileLines = <<>>
          /\ FileContent = <<>>
    /\ (pc = "string-returned" /\ rootKind # "dir") =>
          /\ Len(strOut) = 1
          /\ strOut[1].tag = "diag"

\* C6: when include_file_contents is empty no run writes the content
\* section (banner or record) to any destination.
C6_NoContentSectionWithoutExtensions ==
    cfg.include_file_contents = <<>> =>
        /\ FileContent = <<>>
        /\ recs = <<>>
        /\ \A k \in DOMAIN console :
              console[k].tag \notin RecordSecs \cup {"banner"}

\* C6's case: a run with an empty include_file_contents has returned after
\* writing the line of a file to the output file.
C6_Witness ==
    /\ pc = "returned"
    /\ cfg.include_file_contents = <<>>
    /\ \E k \in DOMAIN FileLines :
          /\ FileLines[k].sec = "entry"
          /\ fs.nodes[FileLines[k].node].kind = "file"

\* C9: each destination receives the lines of the tree if and only if it
\* is active: none reaches the console when output_to_console is false,
\* none reaches a file when no file destination is active.
C9_TreeLinesOnlyToActiveDestinations ==
    (pc = "returned" /\ rootKind = "dir") =>
        /\ (Count(console, LAMBDA l : l.tag \in TreeTags) > 0) <=> ConsoleOn
        /\ (FileLines # <<>>) <=> Opened

\* C10: the output file is opened at most once; once the run has ended,
\* returning or raising, an opened file has been closed exactly once; and
\* nothing is written to it after it is closed.
C10_FileClosedExactlyOnce ==
    LET ev == file.events
        opens == Count(ev, LAMBDA v : v.ev = "open")
        closes == Count(ev, LAMBDA v : v.ev = "close")
    IN  /\ opens <= 1
        /\ closes <= opens
        /\ pc \in {"returned", "raised"} => closes = opens
        /\ \A j, k \in DOMAIN ev :
              (j < k /\ ev[j].ev = "close") => ev[k].ev \notin {"write", "open"}
        /\ \A k \in DOMAIN ev : ev[k].ev = "write" => ev[1].ev = "open"

\* C10's case: a write of the content section failed, the exception left
\* analyze_folder, and the file was closed on the way.
C10_Witness ==
    /\ pc = "raised"
    /\ file.state = "closed"
    /\ FileContent # <<>>
    /\ FileLines # <<>>

\* C11: no failure of a filesystem operation of the run (a listing of the
\* tree pass, a read or the deep listing of the content pass) reaches the
\* caller of analyze_folder as an exception: a run ends raising only when
\* a write to the output file failed.
C11_NoFilesystemFailurePropagates ==
    pc = "raised" => exc = WriteError

\* The entries of the records whose heading the output file received, in
\* the order written.
RecordHeads ==
    LET heads == SelectSeq(file.events, LAMBDA v : v.sec = "record-head")
    IN  [k \in DOMAIN heads |-> heads[k].node]

\* The entries of the records collected, in the order collected.
Collected == [k \in DOMAIN recs |-> recs[k].node]

\* C12: content records go to the output file only, never to the console;
\* no line of the tree is written after a write of the content section,
\* which starts only when the whole tree has been written; and the records
\* are in the file in the order in which they were collected.
C12_RecordsAfterTreeInCollectedOrder ==
    LET ev == file.events
        content == RecordSecs \cup {"banner"}
    IN  /\ \A k \in DOMAIN console : console[k].tag \notin content
        /\ \A j, k \in DOMAIN ev :
              (j < k /\ ev[j].sec \in content) => ev[k].sec \notin TreeTags
        /\ FileContent # <<>> =>
              \E rev \in BOOLEAN :
                 LET r == print_tree_structure(Env(root, fs, cfg, rev),
                                               rootKind, <<>>, TRUE)
                 IN  r.raised = "none" /\ FileLines = TreeChunks(r.written)
        /\ Len(RecordHeads) <= Len(Collected)
        /\ RecordHeads = SubSeq(Collected, 1, Len(RecordHeads))

\* C12's case: a run has returned after writing the lines of the tree and
\* then two records to the file.
C12_Witness ==
    /\ pc = "returned"
    /\ Len(RecordHeads) >= 2
    /\ Len(FileLines) >= 3

\* The texts of events from..to of the file, one after the other.
RECURSIVE TextBetween(_, _)
TextBetween(from, to) ==
    IF from > to THEN <<>>
    ELSE file.events[from].text \o TextBetween(from + 1, to)

\* The content collected for entry i.
ContentOf(i) == recs[CHOOSE r \in DOMAIN recs : recs[r].node = i].content

\* C13: for every record written to the file, the text between its two
\* separator lines is the content followed by exactly one added line break
\* when the content does not end in a line break, and the content alone
\* when it does.
C13_OneLineBreakAdded ==
    LET ev == file.events
    IN  \A k \in DOMAIN ev :
           ev[k].sec = "record-end" =>
              \E j \in 1..(k - 1) :
                 /\ ev[j].sec = "record-rule"
                 /\ ev[j].node = ev[k].node
                 /\ \A m \in (j + 1)..(k - 1) :
                       ev[m].sec \notin {"record-rule", "record-end"}
                 /\ TextBetween(j + 1, k - 1) =
                       LET content == ContentOf(ev[k].node)
                       IN  IF EndsWith(content, <<"\n">>) THEN content
                           ELSE content \o <<"\n">>

\* C13's case: a record whose content ends in a line break and a record
\* whose content does not have both been written in full.
C13_Witness ==
    /\ pc = "returned"
    /\ \E j, k \in DOMAIN file.events :
          /\ file.events[j].sec = "record-end"
          /\ file.events[k].sec = "record-end"
          /\ EndsWith(ContentOf(file.events[j].node), <<"\n">>)
          /\ ~EndsWith(ContentOf(file.events[k].node), <<"\n">>)

\* C20: in every output file, each path that has a record in the content
\* section is listed as a line of the tree section of the same file.
C20_RecordsAreRenderedFiles ==
    pc = "returned" =>
        \A k \in DOMAIN RecordHeads :
            \E j \in DOMAIN FileLines :
                /\ FileLines[j].sec = "entry"
                /\ FileLines[j].node = RecordHeads[k]

(***************************************************************************)
(* Claims about the renderer on its own (SpecTree).                        *)
(***************************************************************************)
\* C2: the order of the rendered lines depends only on the set of children
\* of each directory, not on the order in which iterdir() lists them.
C2_OrderIndependentOfListing ==
    pc = "tree-returned" => \A rev \in BOOLEAN : console = Rerender(fs, rev)

\* The positions in Out of the lines of the children of directory d.
ChildLines(d) ==
    {k \in DOMAIN Out : Out[k].tag = "entry" /\ fs.nodes[Out[k].node].parent = d}

\* C3: for every successfully listed directory with N >= 1 included
\* children, at every depth, there are N child lines, the one last in sort
\* order uses the connector ELL and the other N-1 use TEE.
C3_ExactlyOneLastConnector ==
    \A d \in {0} \cup Entries :
        (Reached(d) /\ ListStatus(Here, d) = "ok") =>
            LET lines == ChildLines(d)
                kids == {i \in Entries : fs.nodes[i].parent = d /\ ~Excluded(i)}
            IN  /\ Cardinality(lines) = Cardinality(kids)
                /\ {Out[k].node : k \in lines} = kids
                /\ \A k \in lines :
                      LET is_last == \A j \in lines : j <= k
                      IN  /\ ConnOf(Out[k]) = IF is_last THEN ELL_CONN ELSE TEE_CONN
                          /\ is_last =>
                                \A j \in lines :
                                    ~KeyLess(Here, Out[k].node, Out[j].node)

\* C3's case: a directory below the root has been rendered with at least
\* two children, one of them excluded from neither line.
C3_Witness ==
    /\ pc = "tree-returned"
    /\ \E d \in Entries :
          /\ Reached(d)
          /\ ListStatus(Here, d) = "ok"
          /\ Cardinality(ChildLines(d)) >= 2

\* The tree with the listing of directory d succeeding.
Healed(d) ==
    IF d = 0 THEN [fs EXCEPT !.rootSt = "ok"]
    ELSE [fs EXCEPT !.nodes[d].st = "ok"]

\* The prefix of the children of directory d, read off d's own line.
ChildPrefix(d) ==
    IF d = 0 THEN <<>>
    ELSE LET line == Out[CHOOSE k \in LinesOf(d, "entry") : TRUE]
         IN  PrefixOf(line)
               \o (IF ConnOf(line) = ELL_CONN THEN BLANK_PREFIX ELSE VBAR_PREFIX)

\* C5: when the listing of a directory fails with a permission error, the
\* renderer emits exactly one line, prefix TEE [Permission Denied], at the
\* prefix of that directory's children and right below the directory's own
\* line, emits no line for anything below the directory, and renders every
\* other line as it does when the listing succeeds.
C5_PermissionDeniedIsLocal ==
    \A d \in {0} \cup Entries :
        (Reached(d) /\ ListStatus(Here, d) = "denied") =>
            LET at == LinesOf(d, "denied")
                own == IF d = 0 THEN LinesOf(0, "root") ELSE LinesOf(d, "entry")
            IN  /\ Cardinality(at) = 1
                /\ \A k \in at :
                      /\ Out[k].text = ChildPrefix(d) \o TEE_CONN \o PERMISSION_DENIED
                      /\ (k - 1) \in own
                /\ \A k \in DOMAIN Out : ~Below(d, Out[k].node)
                /\ \E rev \in BOOLEAN :
                      SelectSeq(Out, LAMBDA l : ~(l.tag = "denied" /\ l.node = d))
                        = SelectSeq(Rerender(Healed(d), rev),
                                    LAMBDA l : ~Below(d, l.node))

\* C5's case: a directory that is not the last of its siblings and has an
\* included child could not be listed, and a later sibling was rendered.
C5_Witness ==
    /\ pc = "tree-returned"
    /\ \E d \in Entries :
          /\ Reached(d)
          /\ ListStatus(Here, d) = "denied"
          /\ \E i \in Entries : fs.nodes[i].parent = d /\ ~Excluded(i)
          /\ \E k \in LinesOf(d, "denied") :
                k < Len(Out) /\ Out[k + 1].tag = "entry"

\* A line of the directory branch (dir_line: the name and a trailing '/').
IsDirLine(line) == EndsWith(line.text, <<"/">>)

\* The name an entry line shows: what follows the prefix and the connector,
\* less the trailing '/' of a directory line.
NameOnLine(line) ==
    LET shown == SubSeq(line.text, 4 * Depth(line.node) + 1, Len(line.text))
    IN  IF IsDirLine(line) THEN SubSeq(shown, 1, Len(shown) - 1) ELSE shown

\* C14: in every rendered directory, all sibling directory lines precede
\* all sibling file lines, and within the directory lines and within the
\* file lines the lower-cased names ascend.
C14_DirectoriesBeforeFiles ==
    \A d \in {0} \cup Entries :
        Reached(d) =>
            \A j, k \in ChildLines(d) :
                j < k =>
                    /\ IsDirLine(Out[k]) => IsDirLine(Out[j])
                    /\ IsDirLine(Out[j]) = IsDirLine(Out[k]) =>
                          ~StrLess(Lower(NameOnLine(Out[k])),
                                   Lower(NameOnLine(Out[j])))

\* The line of entry i is the last of the lines of its siblings.
LastOfSiblings(i) ==
    \A k \in LinesOf(i, "entry") :
        \A j \in ChildLines(fs.nodes[i].parent) : j <= k

\* The prefix segments of the ancestors of entry i below the root, the
\* ancestor at depth 1 first.
RECURSIVE AncestorSegments(_)
AncestorSegments(i) ==
    LET up == fs.nodes[i].parent
    IN  IF up = 0 THEN <<>>
        ELSE AncestorSegments(up)
               \o (IF LastOfSiblings(up) THEN BLANK_PREFIX ELSE VBAR_PREFIX)

\* C16: every entry line at depth d >= 1 is d-1 four-character segments, a
\* connector and the name (a directory's with a trailing '/', a file's
\* without), the k-th segment being four spaces if the entry's ancestor at
\* depth k was the last of its siblings and VBAR with three spaces if not.
C16_PrefixSegmentsFollowAncestors ==
    \A k \in DOMAIN Out :
        Out[k].tag = "entry" =>
            LET i == Out[k].node
                name == fs.nodes[i].name
                        \o (IF fs.nodes[i].kind = "dir" THEN <<"/">> ELSE <<>>)
            IN  /\ Len(AncestorSegments(i)) = 4 * (Depth(i) - 1)
                /\ \E conn \in {TEE_CONN, ELL_CONN} :
                      Out[k].text = AncestorSegments(i) \o conn \o name

\* C16's case: a line two levels below the root whose segment is VBAR with
\* three spaces, its parent directory not being the last of its siblings.
C16_Witness ==
    /\ pc = "tree-returned"
    /\ \E k \in DOMAIN Out :
          /\ Out[k].tag = "entry"
          /\ Depth(Out[k].node) = 2
          /\ ~LastOfSiblings(fs.nodes[Out[k].node].parent)
          /\ SubSeq(Out[k].text, 1, 4) = VBAR_PREFIX

\* The tree section a call of the renderer has produced, whether the call
\* returned or raised: the lines print_tree_structure printed, or the lines
\* of the string get_folder_structure_as_string returned.
TreeSection ==
    IF pc \in {"tree-returned", "tree-raised"} THEN console
    ELSE IF pc = "string-returned" THEN strOut
    ELSE <<>>

\* Entry i passes should_include_file, and so does each of its ancestors
\* below the root, and every ancestor, the root included, is a directory
\* whose listing succeeded.
RECURSIVE Renderable(_)
Renderable(i) ==
    LET up == fs.nodes[i].parent
    IN  /\ ~Excluded(i)
        /\ ListStatus(Here, up) = "ok"
        /\ up # 0 => (fs.nodes[up].kind = "dir" /\ Renderable(up))

\* The renderer tried to list directory d: the root, or a rendered
\* directory.
Tried(d) == d = 0 \/ (fs.nodes[d].kind = "dir" /\ Renderable(d))

\* C19: for a valid root directory the tree section holds exactly one line
\* for every entry that passes should_include_file and all of whose
\* ancestors pass it and were listed successfully, one [Permission Denied]
\* line for every directory whose listing failed, the root line, and no
\* other line; no entry is rendered twice.
C19_ExactlyTheIncludedEntries ==
    (pc \in {"tree-returned", "tree-raised", "string-returned"}
       /\ rootKind = "dir") =>
        LET T == TreeSection
        IN  /\ \A k \in DOMAIN T : T[k].tag \in TreeTags
            /\ Count(T, LAMBDA l : l.tag = "root") = 1
            /\ \A i \in Entries :
                  Count(T, LAMBDA l : l.tag = "entry" /\ l.node = i)
                    = IF Renderable(i) THEN 1 ELSE 0
            /\ \A d \in {0} \cup Entries :
                  Count(T, LAMBDA l : l.tag = "denied" /\ l.node = d)
                    = IF Tried(d) /\ ListStatus(Here, d) # "ok" THEN 1 ELSE 0

\* C21: for every valid root directory and every configuration, the string
\* get_folder_structure_as_string returns is line for line the tree section
\* print_tree_structure writes to the output file for the same directory
\* (listed in the same order) and configuration, [Permission Denied] lines
\* included.
C21_StringEqualsWrittenTree ==
    rootKind = "dir" =>
        /\ pc = "string-returned" =>
              \E rev \in BOOLEAN :
                 LET e == Env(root, fs, cfg, rev)
                     w == print_tree_structure(e, rootKind, <<>>, TRUE)
                 IN  /\ get_folder_structure_as_string(e, rootKind).lines = strOut
                     /\ w.raised = "none"
                     /\ w.written = strOut
        /\ (pc = "tree-returned" /\ file.state = "open") =>
              \E rev \in BOOLEAN :
                 LET e == Env(root, fs, cfg, rev)
                     w == print_tree_structure(e, rootKind, <<>>, TRUE)
                     g == get_folder_structure_as_string(e, rootKind)
                 IN  /\ TreeChunks(w.written) = FileLines
                     /\ g.raised = "none"
                     /\ TreeChunks(g.lines) = FileLines

\* C21's case: the string was returned for a tree with a directory below
\* the root that could not be listed and with an entry two levels down.
C21_Witness ==
    /\ pc = "string-returned"
    /\ rootKind = "dir"
    /\ \E k \in DOMAIN strOut : strOut[k].tag = "denied" /\ strOut[k].node # 0
    /\ \E k \in DOMAIN strOut :
          strOut[k].tag = "entry" /\ Depth(strOut[k].node) = 2

(***************************************************************************)
(* Claims about the spelling of the root path (SpecRoot).                  *)
(***************************************************************************)
\* The own name of the directory that path p names: the final component of
\* the path made absolute.
OwnName(p) == PathName(absolute(p))

\* C15: for every root path that names an existing directory, however it is
\* spelled, the first line of the rendered output is the directory's own
\* name followed by '/', with no prefix, before any entry line.
C15_FirstLineIsRootName ==
    (pc \in {"tree-returned", "string-returned"} /\ rootKind = "dir") =>
        /\ Len(Out) >= 1
        /\ Out[1].tag = "root"
        /\ Out[1].text = OwnName(root) \o <<"/">>
        /\ \A k \in DOMAIN Out : k > 1 => Out[k].tag # "root"

(***************************************************************************)
(* Claims about the content pass (SpecCollect).                            *)
(***************************************************************************)
\* Entry i is reachable under the root: every directory above it, the root
\* included, can be listed.
RECURSIVE Reachable(_)
Reachable(i) ==
    LET up == fs.nodes[i].parent
    IN  /\ ListStatus(Here, up) = "ok"
        /\ up # 0 => (fs.nodes[up].kind = "dir" /\ Reachable(up))

\* Entry i is a regular file that passes both filters.
Embeddable(i) ==
    /\ fs.nodes[i].kind = "file"
    /\ should_include_file(cfg, NodePath(Here, i))
    /\ should_include_file_contents(cfg, NodePath(Here, i))

\* The deep listing failed: the warning of the outer except clause.
Warned == \E k \in DOMAIN console : console[k].tag = "warning"

\* The record of entry i is its relative path with its text or with the
\* placeholder of the failure of its read.
RecordOf(i) ==
    [path |-> Join(RelParts(Here, i), <<"/">>),
     node |-> i,
     content |-> IF fs.nodes[i].st = "ok" THEN fs.nodes[i].text
                 ELSE IF fs.nodes[i].st \in {"decode", "denied"}
                 THEN <<"[Could not read file: ", fs.nodes[i].st, "]">>
                 ELSE <<"[Error reading file: ", fs.nodes[i].st, "]">>]

\* C17 as stated: every regular file reachable under the root that passes
\* both filters yields exactly one record.
C17_EveryReachableFileHasOneRecord ==
    (pc = "collected" /\ rootKind = "dir") =>
        \A i \in Entries :
            (Reachable(i) /\ Embeddable(i)) =>
                Count(recs, LAMBDA r : r.node = i) = 1

\* C17, amended: every record is the one record of a reachable regular file
\* that passes both filters, its relative path with its text or with a
\* placeholder; and when the deep listing itself does not fail, every such
\* file has its record, whatever reads failed before it.
C17_OneRecordPerFileUnlessListingFails ==
    (pc = "collected" /\ rootKind = "dir") =>
        /\ \A k \in DOMAIN recs :
              /\ Reachable(recs[k].node)
              /\ Embeddable(recs[k].node)
              /\ recs[k] = RecordOf(recs[k].node)
              /\ Count(recs, LAMBDA r : r.node = recs[k].node) = 1
        /\ ~Warned =>
              \A i \in Entries :
                  (Reachable(i) /\ Embeddable(i)) =>
                      Count(recs, LAMBDA r : r.node = i) = 1

\* C17's case: the read of a file failed, and a file visited after it has
\* its record with its text.
C17_Witness ==
    /\ pc = "collected"
    /\ ~Warned
    /\ \E j, k \in DOMAIN recs :
          /\ j < k
          /\ fs.nodes[recs[j].node].st # "ok"
          /\ fs.nodes[recs[k].node].st = "ok"
          /\ recs[k].content = TextNewline

(***************************************************************************)
(* Claims about the wizard (SpecGui).                                      *)
(***************************************************************************)
\* finish_analysis has staged a non-empty selection and called
\* analyze_folder.
StagedRun == pc \notin {"wizard", "cancelled"} /\ selected_items # {}

\* C18: when the selection is non-empty at Analyze time, every file staged
\* into the scratch directory, and so every file line of the rendered
\* output, is a file that is in selected_items at that moment; a file the
\* user has deselected is never staged.
C18_StagedFilesAreSelected ==
    StagedRun =>
        /\ \A k \in DOMAIN staged :
              disk.nodes[staged[k]].kind = "file" => staged[k] \in selected_items
        /\ \A k \in DOMAIN FileLines :
              (/\ FileLines[k].sec = "entry"
               /\ fs.nodes[FileLines[k].node].kind = "file")
                  => staged[FileLines[k].node] \in selected_items

\* finish_analysis has been invoked and has not come back to the wizard.
Analyzing == pc \notin {"wizard", "cancelled"}

\* C22: after any sequence of wizard actions current_step stays within
\* 0..2, step 1 is reached only with an output folder set, step 2 only
\* with both an output folder and a target folder set, and finish_analysis
\* is invoked only on step 2 with both folders set.
C22_StepsNeedTheirFolders ==
    /\ current_step \in 0..2
    /\ current_step >= 1 => output_folder # ""
    /\ current_step = 2 => target_folder # ""
    /\ Analyzing =>
          /\ current_step = 2
          /\ output_folder # ""
          /\ target_folder # ""
          /\ outArg = output_folder

\* C22's case: Analyze was pressed, the run failed, and the wizard is back
\* on its last step after the error box, the configuration holding the
\* extensions of the failed run.
C22_Witness ==
    /\ pc = "wizard"
    /\ current_step = 2
    /\ cfg.include_file_contents # <<>>
    /\ selected_items # {}

====
